---- MODULE Spec2Model ----
(***************************************************************************)
(* Model of calculate_stepped_amortization_schedule, the stepped           *)
(* amortization engine of the repository (src/unnamed/part_002, the        *)
(* section "stepped_amortization_schedule").                               *)
(*                                                                         *)
(* Amounts are Python floats in the source.  Here they are fixed-point     *)
(* integers: every product/quotient of the source is computed in the same  *)
(* order of operands and rounded down to a whole unit.  Exact results of   *)
(* the source (x - x = 0, the literal 0 of the balloon record, the literal *)
(* 0 of the 'principal' column) are exact here as well.                    *)
(***************************************************************************)
EXTENDS Integers, Sequences, FiniteSets, TLC

----------------------------------------------------------------------------
(* Bounds of the model *)

MaxLen == 14

MaxYears == 2

(* Program constants *)

MonthsPerYear == 12

DaysPerYear == 365

PercentBase == 100

PaymentInterval == 30

----------------------------------------------------------------------------
(* Inputs of a call *)

Principals == {0, 1000, 1200}

Rates == {-12, 0, 12, 60}

DayCountPatterns == {<<30, 90>>, <<90, 30>>, <<30, 30>>, <<0, 30>>}

Thresholds == {0, 400, 2000}

Installments == {0, 100, 700}

IncreaseLists == {<< >>, <<5>>, <<50, 100, 10>>}

StartDates == {[y |-> 2026, m |-> 6, d |-> 15], [y |-> 2027, m |-> 12, d |-> 31]}

\* the list of length n whose odd positions hold p[1] and even positions p[2]
DayCountList(n, p) == [i \in 1..n |-> IF i % 2 = 1 THEN p[1] ELSE p[2]]

DayCountLists == {DayCountList(n, p) : n \in 0..MaxLen, p \in DayCountPatterns}

----------------------------------------------------------------------------
(* Calendar arithmetic of datetime / timedelta *)

IsLeap(y) == (y % 4 = 0 /\ y % 100 # 0) \/ y % 400 = 0

DaysInMonth(y, m) ==
    IF m = 2 THEN (IF IsLeap(y) THEN 29 ELSE 28)
    ELSE IF m \in {4, 6, 9, 11} THEN 30 ELSE 31

RECURSIVE AddDays(_, _)
AddDays(date, n) ==
    IF date.d + n <= DaysInMonth(date.y, date.m)
    THEN [date EXCEPT !.d = date.d + n]
    ELSE AddDays([y |-> IF date.m = 12 THEN date.y + 1 ELSE date.y,
                  m |-> IF date.m = 12 THEN 1 ELSE date.m + 1,
                  d |-> 1],
                 n - (DaysInMonth(date.y, date.m) - date.d + 1))

\* variant of the advance of the payment date: the same day of the next month
NextPaymentDate_CalendarMonth(date) ==
    [y |-> IF date.m = 12 THEN date.y + 1 ELSE date.y,
     m |-> IF date.m = 12 THEN 1 ELSE date.m + 1,
     d |-> date.d]

\* payment_date += timedelta(days=30)
NextPaymentDate(date) == AddDays(date, PaymentInterval)

\* (payment_date - payment_date.replace(day=1)).days + 1
DayOfMonth(date) == date.d

----------------------------------------------------------------------------
VARIABLES
    principal, annual_interest_rate, years, monthly_days, start_date,
    balloon_payment, bill_type, annual_installment_increases,
    schedule, remaining_balance, payment_number, payment_date,
    monthly_installment, interest_payment, principal_payment,
    year, month, pc, raised, df_schedule,
    other, running

inputs == <<principal, annual_interest_rate, years, monthly_days, start_date,
            balloon_payment, bill_type, annual_installment_increases>>

locals == <<schedule, remaining_balance, payment_number, payment_date,
            monthly_installment, interest_payment, principal_payment,
            year, month>>

\* the frame of a second invocation on the same arguments while it is not
\* running, and which of the two invocations is running
suspended == <<other, running>>

vars == <<inputs, locals, pc, raised, df_schedule, suspended>>

----------------------------------------------------------------------------
(* Pure helpers *)

\* variant of the interest: every period uses the first day count
InterestOn_FirstDay(balance, i) ==
    (balance * annual_interest_rate * monthly_days[1]) \div (PercentBase * DaysPerYear)

\* variant of the interest: the day count of the period before, when there
\* is one
InterestOn_Previous(balance, i) ==
    (balance * annual_interest_rate * monthly_days[IF i > 1 THEN i - 1 ELSE i])
        \div (PercentBase * DaysPerYear)

\* monthly_interest_rates[i-1] applied to a balance:
\* balance * ((annual_interest_rate / 100) * (days / 365))
InterestOn(balance, i) ==
    (balance * annual_interest_rate * monthly_days[i]) \div (PercentBase * DaysPerYear)

\* variant of the principal portion: the operands exchanged
PrincipalPortion_Swapped(installment, int) == int - installment

\* principal_payment = monthly_installment - interest_payment
PrincipalPortion(installment, int) == installment - int

\* variant of the clamp: none at all
ClampPrincipal_NoClamp(portion, balance) == portion

\* variant of the clamp: a negative portion is raised to 0 as well
ClampPrincipal_Floored(portion, balance) ==
    IF portion > balance THEN balance
    ELSE IF portion < 0 THEN 0 ELSE portion

\* the clamp of the principal portion
ClampPrincipal(portion, balance) ==
    IF portion > balance THEN balance ELSE portion

\* monthly_installment * (1 + increase_percentage / 100)
SteppedUp(installment, pct) ==
    (installment * (PercentBase + pct)) \div PercentBase

\* the dictionary appended to the schedule
Record(int, bal) ==
    [date      |-> payment_date,
     days      |-> DayOfMonth(payment_date),
     day       |-> payment_date,
     base_rate |-> annual_interest_rate,
     margin    |-> 0,
     all_rate  |-> annual_interest_rate,
     interest  |-> int,
     principal |-> 0,
     bill_type |-> monthly_installment,
     balance   |-> bal]

\* variants of the break conditions: the threshold compared strictly, and
\* the threshold not compared at all
MonthBreaks_StrictThreshold ==
    \/ payment_number > Len(monthly_days)
    \/ remaining_balance < balloon_payment

MonthBreaks_OnlyExhaustion == payment_number > Len(monthly_days)

\* the conditions under which the monthly step breaks out of the inner loop
MonthBreaks ==
    \/ payment_number > Len(monthly_days)
    \/ remaining_balance <= balloon_payment

\* variant of the inner range: range(1, 14)
MonthInRange_OffByOne == month <= MonthsPerYear + 1

\* the inner loop still has a month to run
MonthInRange == month <= MonthsPerYear

\* variant of the step-up guard: year < len(annual_installment_increases)
StepUpApplies_Strict == year < Len(annual_installment_increases)

\* if year <= len(annual_installment_increases)
StepUpApplies == year <= Len(annual_installment_increases)

\* variant of the balloon guard: compared with the threshold instead of 0
BalloonDue_AboveThreshold == remaining_balance > balloon_payment

\* the guard of the balloon record
BalloonDue == remaining_balance > 0

----------------------------------------------------------------------------
\* the arguments of a call, drawn from the input sets
GeneralInputs ==
    /\ principal \in Principals
    /\ annual_interest_rate \in Rates
    /\ years \in 0..MaxYears
    /\ monthly_days \in DayCountLists
    /\ start_date \in StartDates
    /\ balloon_payment \in Thresholds
    /\ bill_type \in Installments
    /\ annual_installment_increases \in IncreaseLists

\* the arguments of the twelve-period scenario: 100000 at 12%, twelve day
\* counts of 30, no balloon threshold, installment 10000, no increases
ScenarioInputs ==
    /\ principal = 100000
    /\ annual_interest_rate = 12
    /\ years \in 1..MaxYears
    /\ monthly_days = [i \in 1..MonthsPerYear |-> 30]
    /\ start_date \in StartDates
    /\ balloon_payment = 0
    /\ bill_type = 10000
    /\ annual_installment_increases = << >>

\* the frame of an invocation when its loop starts
InitialLocals ==
    [schedule            |-> << >>,
     remaining_balance   |-> principal,
     payment_number      |-> 1,
     payment_date        |-> AddDays(start_date, PaymentInterval),
     monthly_installment |-> bill_type,
     interest_payment    |-> 0,
     principal_payment   |-> 0,
     year                |-> 1,
     month               |-> 1,
     pc                  |-> "for_year",
     raised              |-> "none",
     df_schedule         |-> << >>]

\* the frame of the running invocation
CurrentLocals ==
    [schedule            |-> schedule,
     remaining_balance   |-> remaining_balance,
     payment_number      |-> payment_number,
     payment_date        |-> payment_date,
     monthly_installment |-> monthly_installment,
     interest_payment    |-> interest_payment,
     principal_payment   |-> principal_payment,
     year                |-> year,
     month               |-> month,
     pc                  |-> pc,
     raised              |-> raised,
     df_schedule         |-> df_schedule]

Init ==
    /\ (GeneralInputs \/ ScenarioInputs)
    /\ other = InitialLocals
    /\ running = 1
    /\ schedule = << >>
    /\ remaining_balance = principal
    /\ payment_number = 1
    /\ payment_date = AddDays(start_date, PaymentInterval)
    /\ monthly_installment = bill_type
    /\ interest_payment = 0
    /\ principal_payment = 0
    /\ year = 1
    /\ month = 1
    /\ pc = "for_year"
    /\ raised = "none"
    /\ df_schedule = << >>

\* for year in range(1, years + 1): a further cycle starts
EnterYear ==
    /\ pc = "for_year"
    /\ year <= years
    /\ month' = 1
    /\ pc' = "for_month"
    /\ UNCHANGED <<inputs, suspended, schedule, remaining_balance, payment_number,
                   payment_date, monthly_installment, interest_payment,
                   principal_payment, year, raised, df_schedule>>

\* for year in range(1, years + 1): the range is exhausted
ExitYears ==
    /\ pc = "for_year"
    /\ year > years
    /\ pc' = "balloon"
    /\ UNCHANGED <<inputs, suspended, locals, raised, df_schedule>>

\* one regular period: neither break taken
RegularPeriod ==
    /\ pc = "for_month"
    /\ MonthInRange
    /\ ~MonthBreaks
    /\ LET int  == InterestOn(remaining_balance, payment_number)
           prin == ClampPrincipal(PrincipalPortion(monthly_installment, int),
                                  remaining_balance)
       IN /\ interest_payment' = int
          /\ principal_payment' = prin
          /\ schedule' = Append(schedule, Record(int, remaining_balance - prin))
          /\ remaining_balance' = remaining_balance - prin
    /\ payment_date' = NextPaymentDate(payment_date)
    /\ payment_number' = payment_number + 1
    /\ month' = month + 1
    /\ UNCHANGED <<inputs, suspended, monthly_installment, year, pc, raised, df_schedule>>

\* break out of the inner loop only
BreakMonth ==
    /\ pc = "for_month"
    /\ MonthInRange
    /\ MonthBreaks
    /\ pc' = "step_up"
    /\ UNCHANGED <<inputs, suspended, locals, raised, df_schedule>>

\* for month in range(1, 13): the range is exhausted
EndMonths ==
    /\ pc = "for_month"
    /\ ~MonthInRange
    /\ pc' = "step_up"
    /\ UNCHANGED <<inputs, suspended, locals, raised, df_schedule>>

\* variant of the annual increase: the increase is applied in place to the
\* object the caller passed as bill_type
StepUp_InPlace ==
    /\ pc = "step_up"
    /\ monthly_installment' =
          IF StepUpApplies
          THEN SteppedUp(monthly_installment, annual_installment_increases[year])
          ELSE monthly_installment
    /\ bill_type' = monthly_installment'
    /\ year' = year + 1
    /\ pc' = "for_year"
    /\ UNCHANGED <<principal, annual_interest_rate, years, monthly_days,
                   start_date, balloon_payment, annual_installment_increases,
                   suspended, schedule, remaining_balance, payment_number,
                   payment_date, interest_payment, principal_payment,
                   month, raised, df_schedule>>

\* the annual increase at the end of the body of the outer loop
StepUp ==
    /\ pc = "step_up"
    /\ monthly_installment' =
          IF StepUpApplies
          THEN SteppedUp(monthly_installment, annual_installment_increases[year])
          ELSE monthly_installment
    /\ year' = year + 1
    /\ pc' = "for_year"
    /\ UNCHANGED <<inputs, suspended, schedule, remaining_balance, payment_number,
                   payment_date, interest_payment, principal_payment,
                   month, raised, df_schedule>>

\* the balloon record, its index into monthly_interest_rates in range
BalloonAppend ==
    /\ pc = "balloon"
    /\ BalloonDue
    /\ payment_number <= Len(monthly_days)
    /\ LET int == InterestOn(remaining_balance, payment_number)
       IN /\ interest_payment' = int
          /\ schedule' = Append(schedule, Record(int, 0))
    /\ pc' = "return"
    /\ UNCHANGED <<inputs, suspended, remaining_balance, payment_number, payment_date,
                   monthly_installment, principal_payment, year, month,
                   raised, df_schedule>>

\* the balloon record, monthly_interest_rates[payment_number - 1] out of range
BalloonIndexError ==
    /\ pc = "balloon"
    /\ BalloonDue
    /\ payment_number > Len(monthly_days)
    /\ raised' = "IndexError"
    /\ pc' = "error"
    /\ UNCHANGED <<inputs, suspended, locals, df_schedule>>

\* no balloon record
BalloonSkip ==
    /\ pc = "balloon"
    /\ ~BalloonDue
    /\ pc' = "return"
    /\ UNCHANGED <<inputs, suspended, locals, raised, df_schedule>>

\* df_schedule = pd.DataFrame(schedule); return df_schedule
Return ==
    /\ pc = "return"
    /\ df_schedule' = schedule
    /\ pc' = "done"
    /\ UNCHANGED <<inputs, suspended, locals, raised>>

\* the running invocation continues from the frame f
Resume(f) ==
    /\ schedule' = f.schedule
    /\ remaining_balance' = f.remaining_balance
    /\ payment_number' = f.payment_number
    /\ payment_date' = f.payment_date
    /\ monthly_installment' = f.monthly_installment
    /\ interest_payment' = f.interest_payment
    /\ principal_payment' = f.principal_payment
    /\ year' = f.year
    /\ month' = f.month
    /\ pc' = f.pc
    /\ raised' = f.raised
    /\ df_schedule' = f.df_schedule

\* variants of the switch: the schedule list, or the period counter, is one
\* object shared by both invocations instead of a local of each
Switch_SharedSchedule ==
    /\ running' = 3 - running
    /\ other' = CurrentLocals
    /\ Resume([other EXCEPT !.schedule = schedule])
    /\ UNCHANGED inputs

Switch_SharedCounter ==
    /\ running' = 3 - running
    /\ other' = CurrentLocals
    /\ Resume([other EXCEPT !.payment_number = payment_number])
    /\ UNCHANGED inputs

\* the scheduler suspends the running invocation between two of its steps
\* and lets the other one run: each invocation has its own frame, the
\* arguments are the same objects for both
Switch ==
    /\ running' = 3 - running
    /\ other' = CurrentLocals
    /\ Resume(other)
    /\ UNCHANGED inputs

Next ==
    \/ EnterYear
    \/ ExitYears
    \/ RegularPeriod
    \/ BreakMonth
    \/ EndMonths
    \/ StepUp
    \/ BalloonAppend
    \/ BalloonIndexError
    \/ BalloonSkip
    \/ Return

Spec == Init /\ [][Next]_vars

\* a call runs to its end once started
FairSpec == Spec /\ WF_vars(Next)

----------------------------------------------------------------------------
(* Two invocations on the same arguments, their steps interleaved *)

MaxPairShort == 2

PairInputs ==
    /\ principal = 1000
    /\ annual_interest_rate \in {12, 60}
    /\ \/ Len(monthly_days) <= MaxPairShort
       \/ Len(monthly_days) >= MonthsPerYear
    /\ monthly_days \in {DayCountList(n, p) : n \in 0..MaxLen, p \in {<<30, 90>>, <<30, 30>>}}
    /\ start_date.y = 2026
    /\ bill_type \in {100, 700}
    /\ Len(annual_installment_increases) <= 1

InitPair == Init /\ PairInputs

NextPair == Next \/ Switch

SpecPair == InitPair /\ [][NextPair]_vars

----------------------------------------------------------------------------
(* Vocabulary of the properties *)

\* the preconditions the specification puts on a call
Valid ==
    /\ principal > 0
    /\ Len(monthly_days) > 0
    /\ \A i \in 1..Len(monthly_days) : monthly_days[i] > 0
    /\ annual_interest_rate >= 0
    /\ bill_type > 0

Terminal == pc \in {"done", "error"}

\* the schedule holds regular records only (the balloon step has not appended)
OnlyRegular == pc \in {"for_year", "for_month", "step_up", "balloon", "error"}

\* number of regular records produced so far
NumRegular == payment_number - 1

\* a balloon record has been appended
BalloonEmitted == pc \in {"return", "done"} /\ Len(schedule) = NumRegular + 1

Min(a, b) == IF a <= b THEN a ELSE b

Last(s) == s[Len(s)]

RECURSIVE SumPrincipal(_)
SumPrincipal(s) ==
    IF s = << >> THEN 0 ELSE s[1].principal + SumPrincipal(Tail(s))

\* balance outstanding before the i-th record
BalanceBefore(i) == IF i = 1 THEN principal ELSE schedule[i - 1].balance

----------------------------------------------------------------------------
(* C1: for every valid input the 'principal' column of the returned
   schedule (regular records plus balloon record) sums to the principal. *)
C1_SumOfPrincipalRepaid ==
    (pc = "done" /\ Valid) => SumPrincipal(df_schedule) = principal

(* C2: for every valid input the call returns a schedule whose last record
   has balance 0, however the regular amortization ended. *)
C2_FinalBalanceZero ==
    (Valid /\ Terminal) =>
        /\ pc = "done"
        /\ df_schedule # << >>
        /\ Last(df_schedule).balance = 0

(* C3 as stated: for every valid input every regular record has balance >= 0
   and a balance not above that of the record before it (the principal for
   the first), also when the installment is below the interest accrued. *)
C3_BalanceNonIncreasing ==
    Valid =>
        \A i \in 1..NumRegular :
            /\ schedule[i].balance >= 0
            /\ schedule[i].balance <= BalanceBefore(i)

(* C3 amended: for every valid input every regular record has balance >= 0,
   and its balance is not above that of the record before it whenever the
   installment in effect in that period is at least the interest accrued. *)
C3_BalanceNonIncreasingWhenCovered ==
    Valid =>
        \A i \in 1..NumRegular :
            /\ schedule[i].balance >= 0
            /\ (schedule[i].bill_type >= schedule[i].interest
                  => schedule[i].balance <= BalanceBefore(i))

\* a valid run in which one period negatively amortized and a later one,
\* its installment covering the interest, reduced the balance
C3_Witness ==
    /\ Valid
    /\ \E i, j \in 1..NumRegular :
          /\ i < j
          /\ schedule[i].bill_type < schedule[i].interest
          /\ schedule[i].balance > BalanceBefore(i)
          /\ schedule[j].bill_type >= schedule[j].interest
          /\ schedule[j].balance < BalanceBefore(j)

(* C4: for every valid input the call completes without raising anything,
   in particular no out-of-range read of the day-count list. *)
C4_NoErrorOnValidInput ==
    Valid => (pc # "error" /\ raised = "none")

(* C5: when the day-count list is shorter than years x 12 and the balance is
   still above the threshold after the last day count was consumed, the call
   returns len(monthly_days) regular records plus one balloon record whose
   interest uses the last day count of the list. *)
C5_BalloonAfterExhaustedDayCounts ==
    ( /\ Terminal
      /\ Valid
      /\ Len(monthly_days) < years * MonthsPerYear
      /\ NumRegular = Len(monthly_days)
      /\ remaining_balance > balloon_payment )
    =>
      /\ pc = "done"
      /\ Len(df_schedule) = Len(monthly_days) + 1
      /\ Last(df_schedule).interest = InterestOn(remaining_balance, Len(monthly_days))

(* C6: for every input violating a precondition the call fails with
   InvalidParameter before any record is produced and returns no schedule. *)
C6_InvalidParameterRaised ==
    ~Valid =>
        /\ schedule = << >>
        /\ pc # "done"
        /\ (Terminal => raised = "InvalidParameter")

(* C7: a balloon record carries as 'principal' the balance outstanding
   immediately before it, and its balance is 0. *)
C7_BalloonRepaysOutstanding ==
    (Valid /\ BalloonEmitted) =>
        /\ Last(schedule).principal = BalanceBefore(Len(schedule))
        /\ Last(schedule).balance = 0

(* C8: a schedule returned for a principal > 0 has at least one record. *)
C8_ReturnedScheduleNonEmpty ==
    (pc = "done" /\ principal > 0) => Len(df_schedule) >= 1

\* a valid call returned a schedule made of the balloon record alone
C8_Witness ==
    /\ pc = "done"
    /\ Valid
    /\ NumRegular = 0
    /\ Len(df_schedule) = 1

(* C9: the number of regular records never exceeds
   min(years x 12, len(monthly_days)). *)
C9_RegularCountBounded ==
    OnlyRegular => Len(schedule) <= Min(years * MonthsPerYear, Len(monthly_days))

\* the term ran out first: years x 12 regular records, day counts left over
C9_Witness ==
    /\ pc = "balloon"
    /\ years >= 1
    /\ years * MonthsPerYear < Len(monthly_days)
    /\ Len(schedule) = years * MonthsPerYear

(* C10: in every regular period the principal portion taken off the balance,
   and the 'principal' value recorded, do not exceed the balance outstanding
   at the start of the period. *)
C10_PrincipalPortionWithinBalance ==
    [][(pc = "for_month" /\ payment_number' = payment_number + 1) =>
          /\ principal_payment' <= remaining_balance
          /\ remaining_balance' = remaining_balance - principal_payment'
          /\ Last(schedule').principal <= remaining_balance]_vars

\* the clamp capped the portion: installment - interest exceeded the balance
C10_Witness ==
    /\ NumRegular >= 1
    /\ OnlyRegular
    /\ remaining_balance = 0
    /\ principal_payment > 0
    /\ Last(schedule).bill_type - Last(schedule).interest > principal_payment

----------------------------------------------------------------------------
(* Further vocabulary of the properties *)

\* the initial installment after the first k annual increases, one by one
RECURSIVE Compounded(_)
Compounded(k) ==
    IF k = 0 THEN bill_type
    ELSE (Compounded(k - 1) * (100 + annual_installment_increases[k])) \div 100

\* days from 1 January 2026 to the date
RECURSIVE DaysBeforeYear(_)
DaysBeforeYear(y) ==
    IF y <= 2026 THEN 0
    ELSE DaysBeforeYear(y - 1) + (IF IsLeap(y - 1) THEN 366 ELSE 365)

RECURSIVE DaysBeforeMonth(_, _)
DaysBeforeMonth(y, m) ==
    IF m = 1 THEN 0 ELSE DaysBeforeMonth(y, m - 1) + DaysInMonth(y, m - 1)

Ordinal(date) == DaysBeforeYear(date.y) + DaysBeforeMonth(date.y, date.m) + date.d

\* the twelve-period scenario
Scenario ==
    /\ principal = 100000
    /\ annual_interest_rate = 12
    /\ monthly_days = [i \in 1..12 |-> 30]
    /\ balloon_payment = 0
    /\ bill_type = 10000
    /\ annual_installment_increases = << >>
    /\ years >= 1

\* the suspended invocation has ended
OtherTerminal == other.pc \in {"done", "error"}

----------------------------------------------------------------------------
(* C11: with the threshold above the principal (principal > 0, day counts
   not empty) the call returns no regular record and exactly one balloon
   record, whose 'principal' is the whole principal and whose balance is 0. *)
C11_ThresholdAbovePrincipal ==
    ( /\ Terminal
      /\ Valid
      /\ balloon_payment > principal )
    =>
      /\ pc = "done"
      /\ NumRegular = 0
      /\ Len(df_schedule) = 1
      /\ df_schedule[1].principal = principal
      /\ df_schedule[1].balance = 0

(* C12: the regular record of period index i (0-based), in annual cycle
   y = i div 12 + 1, carries the initial installment compounded by the
   first min(y-1, len(increases)) increases: constant within a cycle,
   stepped once between cycles, unchanged beyond the increases. *)
C12_InstallmentOfCycle ==
    \A j \in 1..NumRegular :
        schedule[j].bill_type =
            Compounded(Min((j - 1) \div 12, Len(annual_installment_increases)))

\* a thirteenth regular record, its installment stepped up from the twelfth
C12_Witness ==
    /\ NumRegular >= 13
    /\ Len(annual_installment_increases) >= 1
    /\ schedule[12].bill_type = bill_type
    /\ schedule[13].bill_type > schedule[12].bill_type

(* C13: two calls on identical arguments end with identical outcomes: the
   same returned schedule, record for record, or the same error. *)
C13_SameArgumentsSameOutcome ==
    (Terminal /\ OtherTerminal) =>
        /\ other.pc = pc
        /\ other.raised = raised
        /\ other.df_schedule = df_schedule

\* both calls have returned a schedule of several records
C13_Witness ==
    /\ pc = "done"
    /\ other.pc = "done"
    /\ running = 2
    /\ Len(df_schedule) >= 2
    /\ Len(other.df_schedule) >= 2

(* C14: the k-th record (0-based, regular records and balloon record alike)
   is dated start_date + 30 x (k+1) days, so the dates increase strictly
   along the schedule. *)
C14_PaymentDates ==
    \A k \in 1..Len(schedule) :
        /\ Ordinal(schedule[k].date) = Ordinal(start_date) + 30 * k
        /\ (k > 1 => Ordinal(schedule[k - 1].date) < Ordinal(schedule[k].date))

\* twelve regular records and a balloon record, the dates running over a
\* year end and a 29 February
C14_Witness ==
    /\ BalloonEmitted
    /\ NumRegular >= 12
    /\ start_date.y = 2027
    /\ schedule[Len(schedule)].date.y = 2029

(* C15: the j-th regular record (0-based) has the interest of day count
   monthly_days[j]: day counts are used in list order, one per regular
   period, and no regular period reads beyond the list. *)
C15_DayCountsInOrder ==
    /\ NumRegular <= Len(monthly_days)
    /\ (OnlyRegular => Len(schedule) = NumRegular)
    /\ \A j \in 1..NumRegular :
          schedule[j].interest =
              (BalanceBefore(j) * annual_interest_rate * monthly_days[j]) \div 36500

\* two regular periods with different day counts and different interest
C15_Witness ==
    /\ NumRegular >= 2
    /\ monthly_days[1] # monthly_days[2]
    /\ schedule[1].interest > 0
    /\ schedule[2].interest > 0
    /\ schedule[1].interest # (principal * annual_interest_rate * monthly_days[2]) \div 36500

(* C16 as stated: the twelve-period scenario yields either 10 regular
   records and no balloon record, or 12 regular records and a balloon. *)
C16_TenOrTwelvePlusBalloon ==
    (Scenario /\ pc = "done") =>
        \/ (NumRegular = 10 /\ Len(df_schedule) = 10)
        \/ (NumRegular = 12 /\ Len(df_schedule) = 13)

(* C16 amended: the twelve-period scenario returns exactly 11 regular
   records and no balloon record; the eleventh is clamped to balance 0. *)
C16_ElevenRegularNoBalloon ==
    (Scenario /\ Terminal) =>
        /\ pc = "done"
        /\ NumRegular = 11
        /\ Len(df_schedule) = 11
        /\ df_schedule[11].balance = 0
        /\ df_schedule[10].balance > 0

\* the scenario has returned
C16_Witness ==
    /\ Scenario
    /\ pc = "done"
    /\ Len(df_schedule) = 11
    /\ principal_payment < bill_type - interest_payment

(* C17: every call ends, and its schedule never has more than
   min(years x 12, len(monthly_days)) + 1 records. *)
C17_EndsWithinBound ==
    /\ <>Terminal
    /\ [](Len(schedule) <= Min(years * MonthsPerYear, Len(monthly_days)) + 1)

\* a returned schedule that reaches the bound
C17_Witness ==
    /\ pc = "done"
    /\ years >= 1
    /\ Len(df_schedule) = Min(years * MonthsPerYear, Len(monthly_days)) + 1

(* C18: with two calls on the same arguments interleaved step by step, a
   step of the running call leaves the frame of the suspended call and the
   arguments as they are, and a switch resumes the suspended call with
   exactly the frame it was suspended with: each call runs as if alone. *)
C18_FramesArePrivate ==
    [][ /\ inputs' = inputs
        /\ (running' = running => other' = other)
        /\ (running' # running => (CurrentLocals' = other /\ other' = CurrentLocals))
      ]_vars

\* both calls are in the middle of their loops, at different periods
C18_Witness ==
    /\ running = 2
    /\ pc = "for_month"
    /\ other.pc = "for_month"
    /\ Len(schedule) >= 1
    /\ Len(other.schedule) > Len(schedule)

(* C19: every record's 'days' is the day count used for its period
   (monthly_days[j] for the j-th regular record) and every record echoes
   the annual rate of the call. *)
C19_PeriodDaysAndRate ==
    Valid =>
        /\ \A j \in 1..NumRegular : schedule[j].days = monthly_days[j]
        /\ \A k \in 1..Len(schedule) :
              /\ schedule[k].base_rate = annual_interest_rate
              /\ schedule[k].all_rate = annual_interest_rate

(* C20: a call, returning or raising, leaves its arguments as they were:
   no step changes the principal, the rate, the term, the day counts, the
   start date, the threshold, the initial installment or the increases. *)
C20_ArgumentsUnchanged ==
    [][inputs' = inputs]_vars

\* a call has returned after working on a stepped-up installment
C20_Witness ==
    /\ pc = "done"
    /\ NumRegular >= 1
    /\ monthly_installment # bill_type
    /\ remaining_balance # principal

----------------------------------------------------------------------------
(* Vocabulary of the properties of the stop and of the balloon record *)

\* the loops are running
InLoops == pc \in {"for_year", "for_month", "step_up"}

\* the stop condition of the monthly step, in the words of the specification
StopCondition ==
    \/ NumRegular >= Len(monthly_days)
    \/ remaining_balance <= balloon_payment

\* the clamp capped the principal portion of the j-th regular record
Clamped(j) == schedule[j].bill_type - schedule[j].interest > BalanceBefore(j)

\* the installment of the j-th regular record covers its interest
Covered(j) == schedule[j].bill_type >= schedule[j].interest

\* the annual cycle whose monthly step found the stop condition, or the last
\* cycle when none did
StopCycle == Min(NumRegular \div 12 + 1, years)

----------------------------------------------------------------------------
(* C21: a balloon record that follows at least one regular period has the
   interest of the remaining balance over the day count of the last period
   consumed, monthly_days[n-1] for n regular records, not the next one. *)
C21_BalloonUsesLastConsumedDayCount ==
    (Valid /\ BalloonEmitted /\ NumRegular >= 1) =>
        Last(schedule).interest =
            (remaining_balance * annual_interest_rate * monthly_days[NumRegular])
                \div 36500

(* C22: once the stop condition holds at a monthly step (day counts used up
   or balance <= threshold), no regular record is produced any more, in that
   annual cycle or in a later one. *)
C22_StopIsFinal ==
    [][(InLoops /\ StopCondition) =>
          /\ schedule' = schedule
          /\ payment_number' = payment_number
          /\ remaining_balance' = remaining_balance]_vars

\* a second annual cycle is entered after the stop came early in the first,
\* with day counts left over
C22_Witness ==
    /\ pc = "for_month"
    /\ year >= 2
    /\ StopCondition
    /\ NumRegular >= 1
    /\ NumRegular < MonthsPerYear
    /\ NumRegular < Len(monthly_days)

(* C23: after the stop in annual cycle y the installment is stepped up for
   the boundary of cycle y only, so the balloon record carries the initial
   installment compounded by the increases of cycles 1..y, not by those of
   every cycle up to the term. *)
C23_NoStepUpAfterStopCycle ==
    (Valid /\ BalloonEmitted) =>
        Last(schedule).bill_type =
            Compounded(Min(StopCycle, Len(annual_installment_increases)))

(* C24: when the clamp caps the principal portion of a regular period
   (installment - interest > balance), that record's balance is 0 and no
   regular record follows it. *)
C24_ClampedPeriodIsLast ==
    \A j \in 1..NumRegular :
        Clamped(j) => (schedule[j].balance = 0 /\ j = NumRegular)

\* the clamp has just capped a period, with months and day counts left over
C24_Witness ==
    /\ pc = "for_month"
    /\ MonthInRange
    /\ NumRegular >= 2
    /\ NumRegular < Len(monthly_days)
    /\ Clamped(NumRegular)
    /\ balloon_payment = 0

(* C25: every regular record has interest = start balance x rate/100 x
   monthly_days[index]/365 and balance = start balance - min(installment -
   interest, start balance). *)
C25_RegularRecordArithmetic ==
    \A j \in 1..NumRegular :
        /\ schedule[j].interest * 36500 <=
              BalanceBefore(j) * annual_interest_rate * monthly_days[j]
        /\ (schedule[j].interest + 1) * 36500 >
              BalanceBefore(j) * annual_interest_rate * monthly_days[j]
        /\ schedule[j].balance =
              BalanceBefore(j)
                - Min(schedule[j].bill_type - schedule[j].interest, BalanceBefore(j))

\* an uncapped period that repaid principal, and a later capped one
C25_Witness ==
    \E i, j \in 1..NumRegular :
        /\ i < j
        /\ schedule[i].interest > 0
        /\ ~Clamped(i)
        /\ schedule[i].balance < BalanceBefore(i)
        /\ Clamped(j)

(* C26: every regular record starts from a balance strictly above the
   threshold, and a remainder > 0 left at or below the threshold is paid by
   the one balloon record. *)
C26_RegularAboveThresholdRestBalloon ==
    /\ \A j \in 1..NumRegular : BalanceBefore(j) > balloon_payment
    /\ ( /\ Valid
         /\ Terminal
         /\ remaining_balance > 0
         /\ remaining_balance <= balloon_payment )
       => (pc = "done" /\ Len(df_schedule) = NumRegular + 1)

(* C27: a returned schedule has at most one balloon record, after all the
   regular ones, and has it exactly when the balance after the loops is > 0;
   a schedule whose last regular period was clamped to 0 has none. *)
C27_BalloonIffBalanceLeft ==
    pc = "done" =>
        /\ df_schedule = schedule
        /\ Len(df_schedule) \in {NumRegular, NumRegular + 1}
        /\ (Len(df_schedule) = NumRegular + 1 <=> remaining_balance > 0)
        /\ \A j \in 1..NumRegular :
              df_schedule[j].balance = 0 => Len(df_schedule) = j

\* a returned schedule that ends with a clamped regular record
C27_Witness ==
    /\ pc = "done"
    /\ NumRegular >= 2
    /\ Clamped(NumRegular)
    /\ Len(df_schedule) = NumRegular

(* C28: if the installment covers the interest in every regular period, the
   balances of the regular records never increase and stay within
   [0, principal]; a negative principal portion is not raised to 0, it is
   added to the balance. *)
C28_CoveredRunsNeverIncrease ==
    /\ (\A j \in 1..NumRegular : Covered(j)) =>
          \A j \in 1..NumRegular :
              /\ schedule[j].balance >= 0
              /\ schedule[j].balance <= BalanceBefore(j)
              /\ schedule[j].balance <= principal
    /\ \A j \in 1..NumRegular :
          ~Covered(j) =>
              schedule[j].balance =
                  BalanceBefore(j) + (schedule[j].interest - schedule[j].bill_type)

\* a run of covered periods with falling balances, still above 0
C28_Witness ==
    /\ NumRegular >= 3
    /\ \A j \in 1..NumRegular :
          /\ Covered(j)
          /\ schedule[j].interest > 0
          /\ schedule[j].balance < BalanceBefore(j)
    /\ remaining_balance > 0

(* C29: when years x 12 < len(monthly_days) and the balance is still above
   the threshold after years x 12 regular periods (none when years = 0), the
   call returns with one balloon record of balance 0 appended, its interest
   taken over the day count at index years x 12. *)
C29_BalloonAfterTermUsesNextDayCount ==
    ( /\ Terminal
      /\ years * MonthsPerYear < Len(monthly_days)
      /\ NumRegular = years * MonthsPerYear
      /\ remaining_balance > balloon_payment )
    =>
      /\ pc = "done"
      /\ raised = "none"
      /\ Len(df_schedule) = years * MonthsPerYear + 1
      /\ Last(df_schedule).balance = 0
      /\ Last(df_schedule).interest =
            (remaining_balance * annual_interest_rate
                * monthly_days[years * MonthsPerYear + 1]) \div 36500

\* a full cycle of twelve periods, then the balloon over the thirteenth day
\* count, which differs from the twelfth
C29_Witness ==
    /\ pc = "done"
    /\ years >= 1
    /\ NumRegular = years * MonthsPerYear
    /\ Len(df_schedule) = NumRegular + 1
    /\ monthly_days[NumRegular] # monthly_days[NumRegular + 1]
    /\ Last(df_schedule).interest > 0

====
